---- MODULE Spec2Model ----
(***************************************************************************)
(* MedStore (custom_components/medstore/__init__.py, sensor.py,            *)
(* med_entity.py): the in-memory document {"meds": [...]}, the entity map  *)
(* index -> entity, the document last handed to the store, and the six     *)
(* service handlers plus the midnight reset.  Handlers run serially: each  *)
(* action is one whole handler call, from its first statement to its       *)
(* return or to the exception that leaves it.                              *)
(***************************************************************************)
EXTENDS Integers, Sequences, FiniteSets, TLC

VARIABLES meds, med_entities, saved, today, last, steps, pending, serial

vars == <<meds, med_entities, saved, today, last, steps, pending, serial>>

\* Bounds of the model.
MaxMeds == 3
MaxSteps == 2

\* min(99999, ...) in take_dose.
CountCap == 99999

(***************************************************************************)
(* Python values carried by service-call payloads and by record fields.    *)
(*   I(n)  the int n              S(n)  the numeric string "n"             *)
(*   F(n)  the float n + 0.5      BAD   a non-numeric string ("abc")       *)
(*   NONE  None / key absent      TEXT(k), DateStr(d), MedName(n) strings  *)
(***************************************************************************)
I(n) == [t |-> "int", n |-> n]
S(n) == [t |-> "str", n |-> n]
F(n) == [t |-> "float", n |-> n]
BAD == [t |-> "bad", n |-> 0]
NONE == [t |-> "none", n |-> 0]
TEXT(k) == [t |-> "text", n |-> k]
MedName(n) == [t |-> "med", n |-> n]

\* int(v): succeeds on ints, numeric strings and floats (truncating toward
\* zero: the floats drawn here are n + 0.5 with n >= 0, so int gives n);
\* raises ValueError on a non-numeric string and TypeError on None.
PyIntOk(v) == v.t \in {"int", "str", "float"}
PyIntVal(v) == v.n

\* v is usable as an operand of +, - and > with an int: only ints are
\* (a str operand raises TypeError).
IsNum(v) == v.t = "int"

Max(a, b) == IF a >= b THEN a ELSE b
Min(a, b) == IF a <= b THEN a ELSE b

\* [0] * n
Zeros(n) == [k \in 1..n |-> 0]

\* all(c >= 1 for c in taken)
AllTaken(taken) == \A k \in 1..Len(taken) : taken[k] >= 1

\* strftime("%Y-%m-%d") of the date with day number d.
DateStr(d) == [t |-> "date", n |-> d]

(***************************************************************************)
(* Service-call payload dicts (med_data, updates): the keys present and    *)
(* their values.                                                           *)
(***************************************************************************)
Blank ==
  [name |-> TEXT(0), strength |-> TEXT(0), dose |-> NONE, doses_per_day |-> NONE,
   timing |-> <<>>, doses_available |-> NONE, refills_available |-> NONE,
   doses_per_refill |-> NONE, next_refill |-> TEXT(0),
   taken_count_per_dose |-> <<>>, all_taken |-> FALSE, active |-> FALSE]

Fields == DOMAIN Blank

Dict(keys, vals) == [keys |-> keys, vals |-> vals]

NoData == Dict({}, Blank)

\* d.get(k, default)
Get(d, k, default) == IF k \in d.keys THEN d.vals[k] ELSE default

(***************************************************************************)
(* _recalc_next_refill_for_entry: [ok, med]; ok is FALSE when one of the   *)
(* three int() calls raises, and then med is untouched.                    *)
(***************************************************************************)
\* DaysLeft that divides by the dose alone.
DaysLeftPerDose(avail, dose, dpd) == IF dose > 0 THEN avail \div dose ELSE 0

DaysLeft(avail, dose, dpd) ==
  LET daily_need == dpd * dose
  IN IF daily_need > 0 THEN avail \div daily_need ELSE 0

Recalc(med, now) ==
  IF PyIntOk(med.doses_available) /\ PyIntOk(med.dose) /\ PyIntOk(med.doses_per_day)
  THEN [ok |-> TRUE,
        med |-> [med EXCEPT !.next_refill =
                   DateStr(now + DaysLeft(PyIntVal(med.doses_available),
                                          PyIntVal(med.dose),
                                          PyIntVal(med.doses_per_day)))]]
  ELSE [ok |-> FALSE, med |-> med]

(***************************************************************************)
(* What one handler call does: the record list, the stored document and    *)
(* the entity map it leaves, how it ended ("ok", "rejected" for a          *)
(* validation return, "error" for an exception that surfaces), the side    *)
(* effects in order, and the entities it removed.                          *)
(***************************************************************************)
Out(m, sv, e, res, eff, rem) ==
  [meds |-> m, saved |-> sv, ents |-> e, result |-> res, effects |-> eff, removed |-> rem]

NoOp(res) == Out(meds, saved, med_entities, res, <<>>, {})

\* async_save followed by async_dispatcher_send
\* SaveAndSignal with the two awaits in the other order.
SignalThenSave(m) == Out(m, m, med_entities, "ok", <<"signal", "save">>, {})

SaveAndSignal(m) == Out(m, m, med_entities, "ok", <<"save", "signal">>, {})

\* An exception leaves the handler after the list became m; nothing saved.
Raise(m) == Out(m, saved, med_entities, "error", <<>>, {})

(***************************************************************************)
(* add                                                                     *)
(***************************************************************************)
\* AddRaw with doses_per_day defaulting to 1 whatever the timing.
AddRawOneADay(md) ==
  LET timing == Get(md, "timing", <<>>)
  IN [name |-> Get(md, "name", MedName(Len(meds) + 1)),
      strength |-> Get(md, "strength", TEXT(0)),
      dose |-> Get(md, "dose", I(1)),
      doses_per_day |-> Get(md, "doses_per_day", I(1)),
      timing |-> timing,
      doses_available |-> Get(md, "doses_available", I(0)),
      refills_available |-> Get(md, "refills_available", I(0)),
      doses_per_refill |-> Get(md, "doses_per_refill", I(0)),
      next_refill |-> Get(md, "next_refill", TEXT(0)),
      taken_count_per_dose |-> Get(md, "taken_count_per_dose",
                                   Zeros(IF Len(timing) > 0 THEN Len(timing) ELSE 1)),
      all_taken |-> Get(md, "all_taken", FALSE),
      active |-> Get(md, "active", TRUE)]

AddRaw(md) ==
  LET timing == Get(md, "timing", <<>>)
  IN [name |-> Get(md, "name", MedName(Len(meds) + 1)),
      strength |-> Get(md, "strength", TEXT(0)),
      dose |-> Get(md, "dose", I(1)),
      doses_per_day |-> Get(md, "doses_per_day",
                            I(IF Len(timing) > 0 THEN Len(timing) ELSE 1)),
      timing |-> timing,
      doses_available |-> Get(md, "doses_available", I(0)),
      refills_available |-> Get(md, "refills_available", I(0)),
      doses_per_refill |-> Get(md, "doses_per_refill", I(0)),
      next_refill |-> Get(md, "next_refill", TEXT(0)),
      taken_count_per_dose |-> Get(md, "taken_count_per_dose",
                                   Zeros(IF Len(timing) > 0 THEN Len(timing) ELSE 1)),
      all_taken |-> Get(md, "all_taken", FALSE),
      active |-> Get(md, "active", TRUE)]

IntFields == {"dose", "doses_per_day", "doses_available", "refills_available",
              "doses_per_refill"}

AddCall(md) ==
  LET raw == AddRaw(md)
  IN IF \E f \in IntFields : ~PyIntOk(raw[f])
     THEN Raise(meds)
     ELSE LET med == [f \in Fields |->
                        IF f \in IntFields THEN I(PyIntVal(raw[f])) ELSE raw[f]]
              rc == Recalc(med, today)
          IN SaveAndSignal(Append(meds, rc.med))

(***************************************************************************)
(* The index checks shared by delete, update, toggle_active, add_refill    *)
(* and take_dose: None returns, int() raising TypeError or ValueError      *)
(* returns, and a coerced value outside [0, len(meds)) does nothing.       *)
(***************************************************************************)
\* IndexAccepted without the None and int() checks.
IndexAcceptedUnchecked(index, m) == 0 <= index.n /\ index.n < Len(m)

IndexAccepted(index, m) ==
  /\ index # NONE
  /\ PyIntOk(index)
  /\ 0 <= PyIntVal(index)
  /\ PyIntVal(index) < Len(m)

\* PopAt that always pops the head of the list.
PopAtFirst(m, i) == [k \in 1..(Len(m) - 1) |-> m[k + 1]]

\* meds.pop(i), i a Python (0-based) position
PopAt(m, i) == [k \in 1..(Len(m) - 1) |-> IF k <= i THEN m[k] ELSE m[k + 1]]

\* meds[i] = med, i a Python (0-based) position
SetAt(m, i, med) == [m EXCEPT ![i + 1] = med]

(***************************************************************************)
(* _sync_med_entities: pop the entities keyed outside range(len(meds)),    *)
(* highest key first, then renumber the remaining ones in key order.       *)
(***************************************************************************)
Rank(k, K) == Cardinality({j \in K : j < k})

\* SyncMedEntities without the removal pass.
SyncKeepAll(m, ents) ==
  [ents |-> ents, removed |-> {}, effects |-> <<"signal">>]

SyncMedEntities(m, ents) ==
  LET current == 0..(Len(m) - 1)
      existing == DOMAIN ents
      removed == existing \ current
      kept == existing \ removed
      new_map == [i \in 0..(Cardinality(kept) - 1) |->
                    LET old_index == CHOOSE k \in kept : Rank(k, kept) = i
                    IN [ents[old_index] EXCEPT !.index = i]]
  IN [ents |-> new_map,
      removed |-> {ents[k].id : k \in removed},
      effects |-> [k \in 1..Cardinality(removed) |-> "remove"] \o <<"signal">>]

(***************************************************************************)
(* _sync_med_entities as the event loop runs it: the removal loop awaits   *)
(* async_remove for every entity it pops, and other calls run meanwhile.   *)
(***************************************************************************)
RECURSIVE Descending(_)
\* sorted(K, reverse=True)
Descending(K) ==
  IF K = {}
  THEN <<>>
  ELSE LET top == CHOOSE k \in K : \A j \in K : j <= k
       IN <<top>> \o Descending(K \ {top})

\* SyncTodo that finds nothing to remove.
SyncTodoNone(m, ents) == <<>>

\* sorted(existing_indices - current_indices, reverse=True)
SyncTodo(m, ents) == Descending(DOMAIN ents \ (0..(Len(m) - 1)))

RECURSIVE RunRemovals(_, _)
\* The removal loop from idx = Head(todo) up to its next await, or its end.
RunRemovals(ents, todo) ==
  IF todo = <<>>
  THEN [ents |-> ents, todo |-> <<>>, awaiting |-> FALSE]
  ELSE IF Head(todo) \in DOMAIN ents
       THEN [ents |-> [k \in DOMAIN ents \ {Head(todo)} |-> ents[k]],
             todo |-> Tail(todo), awaiting |-> TRUE]
       ELSE RunRemovals(ents, Tail(todo))

\* new_map: the remaining entities renumbered in key order
Reindex(ents) ==
  [i \in 0..(Cardinality(DOMAIN ents) - 1) |->
     LET old_index == CHOOSE k \in DOMAIN ents : Rank(k, DOMAIN ents) = i
     IN [ents[old_index] EXCEPT !.index = i]]

(***************************************************************************)
(* delete                                                                  *)
(***************************************************************************)
\* DeleteCall without meds.pop(i).
DeleteCallNoPop(index) ==
  IF ~IndexAccepted(index, meds)
  THEN NoOp("rejected")
  ELSE LET sync == SyncMedEntities(meds, med_entities)
       IN Out(meds, meds, sync.ents, "ok", <<"save">> \o sync.effects, sync.removed)

DeleteCall(index) ==
  IF ~IndexAccepted(index, meds)
  THEN NoOp("rejected")
  ELSE LET m == PopAt(meds, PyIntVal(index))
           sync == SyncMedEntities(m, med_entities)
       IN Out(m, m, sync.ents, "ok", <<"save">> \o sync.effects, sync.removed)

(***************************************************************************)
(* update                                                                  *)
(***************************************************************************)
\* dict.update(updates)
Merge(med, u) == [f \in Fields |-> IF f \in u.keys THEN u.vals[f] ELSE med[f]]

UpdateCall(index, updates) ==
  IF ~IndexAccepted(index, meds)
  THEN NoOp("rejected")
  ELSE LET i == PyIntVal(index)
           merged == Merge(meds[i + 1], updates)
           rc == Recalc(merged, today)
       IN IF rc.ok
          THEN SaveAndSignal(SetAt(meds, i, rc.med))
          ELSE Raise(SetAt(meds, i, merged))

(***************************************************************************)
(* toggle_active                                                           *)
(***************************************************************************)
ToggleCall(index) ==
  IF ~IndexAccepted(index, meds)
  THEN NoOp("rejected")
  ELSE LET i == PyIntVal(index)
       IN SaveAndSignal(SetAt(meds, i, [meds[i + 1] EXCEPT !.active = ~@]))

(***************************************************************************)
(* add_refill                                                              *)
(***************************************************************************)
\* call.data.get("amount", 0)
AmountOf(arg) == IF arg = NONE THEN I(0) ELSE arg

\* RefillsAfter without the refills_available > 0 test.
RefillsAfterNoGuard(r) == r - 1

RefillsAfter(r) == IF r > 0 THEN Max(0, r - 1) ELSE r

AddRefillCall(index, arg) ==
  IF ~IndexAccepted(index, meds)
  THEN NoOp("rejected")
  ELSE LET i == PyIntVal(index)
           med == meds[i + 1]
           amount == AmountOf(arg)
       IN IF ~PyIntOk(amount) \/ ~IsNum(med.doses_available)
          THEN Raise(meds)
          ELSE LET med1 == [med EXCEPT !.doses_available =
                              I(med.doses_available.n + PyIntVal(amount))]
               IN IF ~IsNum(med1.refills_available)
                  THEN Raise(SetAt(meds, i, med1))
                  ELSE LET med2 == [med1 EXCEPT !.refills_available =
                                      I(RefillsAfter(med1.refills_available.n))]
                           rc == Recalc(med2, today)
                       IN IF rc.ok
                          THEN SaveAndSignal(SetAt(meds, i, rc.med))
                          ELSE Raise(SetAt(meds, i, med2))

(***************************************************************************)
(* take_dose                                                               *)
(***************************************************************************)
\* taken + [0] * (len(timing) - len(taken)) when taken is the shorter
Padded(taken, timing) ==
  IF Len(taken) < Len(timing)
  THEN taken \o Zeros(Len(timing) - Len(taken))
  ELSE taken

\* Bump without the cap.
BumpNoCap(taken, d) == [taken EXCEPT ![d + 1] = taken[d + 1] + 1]

\* Bump that counts every dose in the first slot.
BumpFirst(taken, d) == [taken EXCEPT ![1] = Min(CountCap, taken[1] + 1)]

\* taken[dose_index] = min(99999, taken[dose_index] + 1)
Bump(taken, d) == [taken EXCEPT ![d + 1] = Min(CountCap, taken[d + 1] + 1)]

\* AvailAfterDose without the floor at 0.
AvailAfterDoseNoFloor(avail, dose) == avail - dose

\* max(0, doses_available - dose)
AvailAfterDose(avail, dose) == Max(0, avail - dose)

TakeDoseCall(index, dose_index) ==
  IF dose_index = NONE \/ ~PyIntOk(dose_index) \/ ~IndexAccepted(index, meds)
  THEN NoOp("rejected")
  ELSE LET i == PyIntVal(index)
           d == PyIntVal(dose_index)
           med == meds[i + 1]
       IN IF ~(0 <= d /\ d < Len(med.timing))
          THEN NoOp("rejected")
          ELSE LET taken == Bump(Padded(med.taken_count_per_dose, med.timing), d)
                   med1 == [med EXCEPT !.taken_count_per_dose = taken]
               IN IF ~IsNum(med.doses_available) \/ ~IsNum(med.dose)
                  THEN Raise(SetAt(meds, i, med1))
                  ELSE LET med2 == [med1 EXCEPT
                                      !.doses_available =
                                         I(AvailAfterDose(med.doses_available.n, med.dose.n)),
                                      !.all_taken = AllTaken(taken)]
                           rc == Recalc(med2, today)
                       IN IF rc.ok
                          THEN SaveAndSignal(SetAt(meds, i, rc.med))
                          ELSE Raise(SetAt(meds, i, med2))

(***************************************************************************)
(* async_midnight_reset: the sweep visits the records in order; a          *)
(* doses_per_day that is not a number makes the comparison raise, which    *)
(* ends the sweep where it stands.                                         *)
(***************************************************************************)
ResetMed(med) ==
  [med EXCEPT !.taken_count_per_dose = Zeros(Len(med.timing)), !.all_taken = FALSE]

RECURSIVE Sweep(_, _, _)
Sweep(m, k, changed) ==
  IF k > Len(m)
  THEN [meds |-> m, changed |-> changed, ok |-> TRUE]
  ELSE IF ~m[k].active
       THEN Sweep(m, k + 1, changed)
       ELSE IF ~IsNum(m[k].doses_per_day)
            THEN [meds |-> m, changed |-> changed, ok |-> FALSE]
            ELSE IF m[k].doses_per_day.n > 0
                 THEN Sweep([m EXCEPT ![k] = ResetMed(m[k])], k + 1, TRUE)
                 ELSE Sweep(m, k + 1, changed)

MidnightResetCall ==
  LET sw == Sweep(meds, 1, FALSE)
  IN IF ~sw.ok
     THEN Raise(sw.meds)
     ELSE IF sw.changed
          THEN SaveAndSignal(sw.meds)
          ELSE NoOp("ok")

(***************************************************************************)
(* Payloads the model draws from.                                          *)
(***************************************************************************)
AddInputs ==
  { NoData,
    Dict({"timing", "dose", "doses_per_day", "doses_available"},
         [Blank EXCEPT !.timing = <<"08:00", "20:00">>, !.dose = I(2),
                       !.doses_per_day = I(2), !.doses_available = I(10)]),
    Dict({"timing", "dose"},
         [Blank EXCEPT !.timing = <<"08:00">>, !.dose = BAD]),
    Dict({"timing", "doses_per_day", "doses_available", "refills_available"},
         [Blank EXCEPT !.timing = <<"08:00">>, !.doses_per_day = F(2),
                       !.doses_available = I(-5), !.refills_available = S(1)]),
    Dict({"timing", "taken_count_per_dose", "all_taken", "next_refill"},
         [Blank EXCEPT !.timing = <<"08:00">>,
                       !.taken_count_per_dose = <<CountCap + 1>>,
                       !.all_taken = TRUE, !.next_refill = TEXT(1)]),
    Dict({"name", "strength", "timing", "active"},
         [Blank EXCEPT !.name = TEXT(1), !.strength = TEXT(2),
                       !.timing = <<"12:00">>, !.active = FALSE]),
    Dict({"timing"}, [Blank EXCEPT !.timing = <<"08:00", "20:00">>]) }

UpdateInputs ==
  { Dict({"dose"}, [Blank EXCEPT !.dose = BAD]),
    Dict({"doses_per_day"}, [Blank EXCEPT !.doses_per_day = S(2)]),
    Dict({"timing"}, [Blank EXCEPT !.timing = <<"08:00", "12:00", "20:00">>]),
    Dict({"taken_count_per_dose"}, [Blank EXCEPT !.taken_count_per_dose = <<0>>]),
    Dict({"doses_available", "next_refill"},
         [Blank EXCEPT !.doses_available = I(7), !.next_refill = TEXT(1)]),
    Dict({"doses_per_day"}, [Blank EXCEPT !.doses_per_day = I(0)]),
    Dict({"refills_available"}, [Blank EXCEPT !.refills_available = BAD]) }

IndexVals == {NONE, BAD, F(0), S(1)} \cup {I(k) : k \in (-1)..MaxMeds}

ValidIndexVals == {I(k) : k \in 0..(Len(meds) - 1)}

AmountVals == {NONE, BAD, F(2), I(-1)}

DoseIndexVals == {NONE, BAD, F(0), I(-1), I(1), I(2)}

(***************************************************************************)
(* The state after async_setup: the stored document is loaded and          *)
(* async_setup_platform creates one entity per loaded record.  The stored  *)
(* records are ones earlier runs of the handlers leave behind.             *)
(***************************************************************************)
Stored1 ==
  [name |-> MedName(1), strength |-> TEXT(0), dose |-> I(2), doses_per_day |-> I(2),
   timing |-> <<"08:00", "20:00">>, doses_available |-> I(3),
   refills_available |-> I(1), doses_per_refill |-> I(30), next_refill |-> DateStr(0),
   taken_count_per_dose |-> <<1, 0>>, all_taken |-> FALSE, active |-> TRUE]

Stored2 ==
  [name |-> MedName(2), strength |-> TEXT(0), dose |-> I(1), doses_per_day |-> I(1),
   timing |-> <<"08:00">>, doses_available |-> I(0),
   refills_available |-> I(0), doses_per_refill |-> I(0), next_refill |-> DateStr(0),
   taken_count_per_dose |-> <<CountCap>>, all_taken |-> TRUE, active |-> TRUE]

Stored3 ==
  [name |-> TEXT(1), strength |-> TEXT(2), dose |-> I(1), doses_per_day |-> I(1),
   timing |-> <<"12:00">>, doses_available |-> I(4),
   refills_available |-> I(2), doses_per_refill |-> I(0), next_refill |-> DateStr(4),
   taken_count_per_dose |-> <<1>>, all_taken |-> TRUE, active |-> FALSE]

StoredRecord(k) ==
  IF k % 3 = 1 THEN Stored1 ELSE IF k % 3 = 2 THEN Stored2 ELSE Stored3

StoredDoc(n) == [k \in 1..n |-> StoredRecord(k)]

\* async_setup_platform: medstore._med_entities[i] = MedStoreMedicationEntity(medstore, i)
SetupEntities(n) == [k \in 0..(n - 1) |-> [id |-> k, index |-> k]]

NoCall ==
  [op |-> "setup", index |-> NONE, arg |-> NONE, data |-> NoData,
   result |-> "ok", effects |-> <<>>, removed |-> {}, n0 |-> 0]

Init ==
  /\ \E n \in 0..MaxMeds :
       /\ meds = StoredDoc(n)
       /\ saved = StoredDoc(n)
       /\ med_entities = SetupEntities(n)
  /\ today = 0
  /\ last = NoCall
  /\ steps = 0
  /\ pending = {}
  /\ serial = meds

\* The list a run of the calls one after the other, in the order they
\* started, holds after the call that leaves out.
SerialAfter(out) == IF serial = meds THEN out.meds ELSE serial

\* The state a call leaves when it runs to its end with no other call
\* in between.
Apply(op, index, arg, data, out) ==
  /\ steps < MaxSteps
  /\ steps' = steps + 1
  /\ meds' = out.meds
  /\ serial' = SerialAfter(out)
  /\ pending' = pending
  /\ saved' = out.saved
  /\ med_entities' = out.ents
  /\ last' = [op |-> op, index |-> index, arg |-> arg, data |-> data,
              result |-> out.result, effects |-> out.effects, removed |-> out.removed,
              n0 |-> Len(meds)]

Add ==
  \E md \in AddInputs :
    /\ Len(meds) < MaxMeds
    /\ Apply("add", NONE, NONE, md, AddCall(md))
    /\ UNCHANGED today

Delete ==
  \E index \in IndexVals :
    /\ Apply("delete", index, NONE, NoData, DeleteCall(index))
    /\ UNCHANGED today

Update ==
  \E c \in (IndexVals \X {NoData}) \cup (ValidIndexVals \X UpdateInputs) :
    /\ Apply("update", c[1], NONE, c[2], UpdateCall(c[1], c[2]))
    /\ UNCHANGED today

ToggleActive ==
  \E index \in IndexVals :
    /\ Apply("toggle_active", index, NONE, NoData, ToggleCall(index))
    /\ UNCHANGED today

AddRefill ==
  \E c \in (IndexVals \X {I(5)}) \cup (ValidIndexVals \X AmountVals) :
    /\ Apply("add_refill", c[1], c[2], NoData, AddRefillCall(c[1], c[2]))
    /\ UNCHANGED today

TakeDose ==
  \E c \in (IndexVals \X {I(0)}) \cup (ValidIndexVals \X DoseIndexVals) :
    /\ Apply("take_dose", c[1], c[2], NoData, TakeDoseCall(c[1], c[2]))
    /\ UNCHANGED today

\* The host fires the reset at local midnight, as the date changes.
MidnightReset ==
  /\ Apply("reset", NONE, NONE, NoData, MidnightResetCall)
  /\ today' = today + 1

Next ==
  \/ Add
  \/ Delete
  \/ Update
  \/ ToggleActive
  \/ AddRefill
  \/ TakeDose
  \/ MidnightReset

Spec == Init /\ [][Next]_vars

(***************************************************************************)
(* The handlers as tasks of the event loop.  A call runs up to its first   *)
(* await that suspends, store.async_save; the awaits of                    *)
(* _recalc_next_refill_for_entry run through without suspending.  A call   *)
(* that is rejected, raises, or has nothing to save ends in its first      *)
(* step.  pending holds the suspended calls: awaiting the save, or, in     *)
(* _sync_med_entities, awaiting async_remove with todo the keys the        *)
(* removal loop has still to visit.                                        *)
(***************************************************************************)
Suspends(out) == out.result = "ok" /\ out.effects # <<>>

Begin(op, index, arg, data, out) ==
  /\ steps < MaxSteps
  /\ steps' = steps + 1
  /\ meds' = out.meds
  /\ serial' = SerialAfter(out)
  /\ saved' = out.saved
  /\ med_entities' = med_entities
  /\ last' = [op |-> op, index |-> index, arg |-> arg, data |-> data,
              result |-> out.result,
              effects |-> IF Suspends(out) THEN <<"save">> ELSE <<>>,
              removed |-> {}, n0 |-> Len(meds)]
  /\ pending' = IF Suspends(out)
                THEN pending \cup {[id |-> steps, op |-> op, stage |-> "save",
                                    todo |-> <<>>]}
                ELSE pending

\* What the tasks are called with: integer indexes, in range or one past the
\* end, and payloads that go through or raise.
TaskIndexVals == {I(k) : k \in 0..Len(meds)}

TaskAddInputs == {md \in AddInputs : md.keys \subseteq {"timing", "dose"}}

TaskUpdateInputs ==
  {u \in UpdateInputs : "dose" \in u.keys \/ "doses_available" \in u.keys}

BeginAdd ==
  \E md \in TaskAddInputs :
    /\ Len(meds) < MaxMeds
    /\ Begin("add", NONE, NONE, md, AddCall(md))
    /\ UNCHANGED today

BeginDelete ==
  \E index \in TaskIndexVals :
    /\ Begin("delete", index, NONE, NoData, DeleteCall(index))
    /\ UNCHANGED today

BeginUpdate ==
  \E c \in (TaskIndexVals \X {NoData}) \cup (ValidIndexVals \X TaskUpdateInputs) :
    /\ Begin("update", c[1], NONE, c[2], UpdateCall(c[1], c[2]))
    /\ UNCHANGED today

BeginToggleActive ==
  \E index \in TaskIndexVals :
    /\ Begin("toggle_active", index, NONE, NoData, ToggleCall(index))
    /\ UNCHANGED today

BeginAddRefill ==
  \E c \in TaskIndexVals \X {I(5), BAD} :
    /\ Begin("add_refill", c[1], c[2], NoData, AddRefillCall(c[1], c[2]))
    /\ UNCHANGED today

BeginTakeDose ==
  \E c \in TaskIndexVals \X {I(0), I(1)} :
    /\ Begin("take_dose", c[1], c[2], NoData, TakeDoseCall(c[1], c[2]))
    /\ UNCHANGED today

BeginMidnightReset ==
  /\ Begin("reset", NONE, NONE, NoData, MidnightResetCall)
  /\ today' = today + 1

\* The save of a call other than delete returns: the call sends its signal
\* and ends.
SaveDone ==
  \E t \in pending :
    /\ t.stage = "save"
    /\ t.op # "delete"
    /\ pending' = pending \ {t}
    /\ UNCHANGED <<meds, med_entities, saved, today, last, steps, serial>>

\* The removal loop from todo on; after it the renumbering and the signal.
SyncFrom(t, todo) ==
  LET r == RunRemovals(med_entities, todo)
  IN IF r.awaiting
     THEN /\ med_entities' = r.ents
          /\ pending' = (pending \ {t}) \cup
                           {[t EXCEPT !.stage = "remove", !.todo = r.todo]}
     ELSE /\ med_entities' = Reindex(r.ents)
          /\ pending' = pending \ {t}

\* The save of a delete returns: the call enters _sync_med_entities.
DeleteSaveDone ==
  \E t \in pending :
    /\ t.stage = "save"
    /\ t.op = "delete"
    /\ SyncFrom(t, SyncTodo(meds, med_entities))
    /\ UNCHANGED <<meds, saved, today, last, steps, serial>>

\* async_remove returns: the removal loop goes on.
RemoveDone ==
  \E t \in pending :
    /\ t.stage = "remove"
    /\ SyncFrom(t, t.todo)
    /\ UNCHANGED <<meds, saved, today, last, steps, serial>>

NextTasks ==
  \/ BeginAdd
  \/ BeginDelete
  \/ BeginUpdate
  \/ BeginToggleActive
  \/ BeginAddRefill
  \/ BeginTakeDose
  \/ BeginMidnightReset
  \/ SaveDone
  \/ DeleteSaveDone
  \/ RemoveDone

SpecTasks == Init /\ [][NextTasks]_vars

(***************************************************************************)
(* Vocabulary of the properties.                                           *)
(***************************************************************************)
IndexOps == {"delete", "update", "toggle_active", "add_refill", "take_dose"}

\* Position (1-based) of the record the last successful call worked on.
TargetPos == IF last.op = "add" THEN Len(meds) ELSE PyIntVal(last.index) + 1

\* The step changed nothing the program holds and had no side effect.
NoOpStep ==
  /\ meds' = meds
  /\ med_entities' = med_entities
  /\ saved' = saved
  /\ last'.effects = <<>>
  /\ last'.result # "error"

\* Some numeric field of the payload cannot be coerced to an integer.
BadNumber(d) == \E f \in IntFields \cap d.keys : ~PyIntOk(d.vals[f])

(***************************************************************************)
(* C1: a value that cannot be coerced to an integer (a numeric field of    *)
(* med_data in add, a numeric field of the updates of update on a valid    *)
(* index, the amount of add_refill on a valid index) makes the call a      *)
(* silent no-op: no exception surfaces and the record list is as before.   *)
(***************************************************************************)
C1_CoercionFailureIsSilentNoOp ==
  [][ ( \/ last'.op = "add" /\ BadNumber(last'.data)
        \/ /\ last'.op = "update"
           /\ IndexAccepted(last'.index, meds)
           /\ BadNumber(last'.data)
        \/ /\ last'.op = "add_refill"
           /\ IndexAccepted(last'.index, meds)
           /\ last'.arg # NONE
           /\ ~PyIntOk(last'.arg) )
      => (last'.result # "error" /\ meds' = meds) ]_vars

(***************************************************************************)
(* C2.  An index is "an integer" when it is an int or a string of digits;  *)
(* 0.5 is not.  The claim as written: a call whose index is missing, not   *)
(* an integer or outside [0, length), and a take_dose call whose           *)
(* dose_index is missing, not an integer or outside [0, len(timing)),      *)
(* changes nothing, persists nothing, signals nothing and raises nothing.  *)
(***************************************************************************)
IsInteger(v) == v.t \in {"int", "str"}

WrittenInvalid(v, n) == v = NONE \/ ~IsInteger(v) \/ v.n < 0 \/ v.n >= n

C2_AsWritten ==
  [][ ( /\ last'.op \in IndexOps
        /\ \/ WrittenInvalid(last'.index, Len(meds))
           \/ /\ last'.op = "take_dose"
              /\ WrittenInvalid(last'.arg, Len(meds[last'.index.n + 1].timing)) )
      => NoOpStep ]_vars

(***************************************************************************)
(* C2 as amended: a call whose index is missing, is refused by int() (it   *)
(* raises TypeError or ValueError), or converts to a value outside         *)
(* [0, length), and a take_dose call whose dose_index is so with respect   *)
(* to [0, len(timing)), is a no-op that returns without an exception.  A   *)
(* float index is truncated by int() and used.                             *)
(***************************************************************************)
CoercedInvalid(v, n) == v = NONE \/ ~PyIntOk(v) \/ PyIntVal(v) < 0 \/ PyIntVal(v) >= n

C2_InvalidIndexIsNoOp ==
  [][ ( /\ last'.op \in IndexOps
        /\ \/ CoercedInvalid(last'.index, Len(meds))
           \/ /\ last'.op = "take_dose"
              /\ CoercedInvalid(last'.arg,
                                Len(meds[PyIntVal(last'.index) + 1].timing)) )
      => (NoOpStep /\ last'.result = "rejected") ]_vars

\* take_dose on an existing record with a dose_index past its timing slots.
C2_Witness ==
  /\ last.op = "take_dose"
  /\ last.result = "rejected"
  /\ IndexAccepted(last.index, meds)
  /\ last.arg = I(2)
  /\ Len(meds[PyIntVal(last.index) + 1].timing) = 2

(***************************************************************************)
(* C3: after a successful add, update of timing or taken_count_per_dose,   *)
(* take_dose or daily reset, every record the call touched has             *)
(* len(taken_count_per_dose) = len(timing).                                *)
(***************************************************************************)
SameWidth(med) == Len(med.taken_count_per_dose) = Len(med.timing)

C3_CounterWidthMatchesTiming ==
  /\ ( /\ last.result = "ok"
       /\ \/ last.op \in {"add", "take_dose"}
          \/ /\ last.op = "update"
             /\ last.data.keys \cap {"timing", "taken_count_per_dose"} # {} )
     => SameWidth(meds[TargetPos])
  /\ (last.op = "reset" /\ last.result = "ok")
     => \A k \in 1..Len(meds) :
          (meds[k].active /\ meds[k].doses_per_day.n > 0) => SameWidth(meds[k])

(***************************************************************************)
(* C4: in every state reached by add, update, take_dose and the daily      *)
(* reset, a record's all_taken is true exactly when every slot of its      *)
(* taken_count_per_dose is >= 1.                                           *)
(***************************************************************************)
C4_AllTakenIffEverySlotTaken ==
  (last.op \in {"setup", "add", "update", "take_dose", "reset"} /\ last.result = "ok")
  => \A k \in 1..Len(meds) :
       meds[k].all_taken <=> (\A j \in 1..Len(meds[k].taken_count_per_dose) :
                                 meds[k].taken_count_per_dose[j] >= 1)

(***************************************************************************)
(* C5: take_dose never drives doses_available below zero: a take_dose      *)
(* call leaves every record's doses_available either as it was or at an    *)
(* integer >= 0, and a call that goes through leaves the record it worked  *)
(* on at an integer >= 0, whatever the dose and the inventory before.      *)
(***************************************************************************)
C5_TakeDoseNeverBelowZero ==
  [][ last'.op = "take_dose"
      => /\ Len(meds') = Len(meds)
         /\ \A k \in 1..Len(meds) :
              \/ meds'[k].doses_available = meds[k].doses_available
              \/ /\ meds'[k].doses_available.t = "int"
                 /\ meds'[k].doses_available.n >= 0
         /\ last'.result = "ok"
            => LET k == PyIntVal(last'.index) + 1
               IN /\ meds'[k].doses_available.t = "int"
                  /\ meds'[k].doses_available.n >= 0 ]_vars

\* A dose of 2 taken twice from an inventory of 3: 3 -> 1 -> 0.
C5_Witness ==
  /\ last.op = "take_dose"
  /\ last.result = "ok"
  /\ steps = 2
  /\ meds[TargetPos].dose = I(2)
  /\ meds[TargetPos].doses_available = I(0)
  /\ meds[TargetPos].taken_count_per_dose \in {<<3, 0>>, <<2, 1>>, <<1, 2>>}

(***************************************************************************)
(* C6 as written: in every reachable state every slot of every record's    *)
(* taken_count_per_dose is at most 99999.                                  *)
(***************************************************************************)
WithinCap(m) ==
  \A k \in 1..Len(m) :
    \A j \in 1..Len(m[k].taken_count_per_dose) : m[k].taken_count_per_dose[j] <= CountCap

C6_AsWritten == WithinCap(meds)

(***************************************************************************)
(* C6 as amended: take_dose never leaves the slot it counts above 99999,   *)
(* however often it is called, and no call other than an add or an update  *)
(* (which store the counters the caller supplies as they are) takes a      *)
(* record list whose slots are all at most 99999 to one with a slot above. *)
(***************************************************************************)
C6_TakeDoseCapsTheSlot ==
  [][ /\ (last'.op = "take_dose" /\ last'.result # "rejected")
         => meds'[PyIntVal(last'.index) + 1]
              .taken_count_per_dose[PyIntVal(last'.arg) + 1] <= CountCap
      /\ (last'.op \notin {"add", "update"} /\ WithinCap(meds))
         => WithinCap(meds') ]_vars

\* take_dose on a slot that already stands at 99999.
C6_Witness ==
  /\ last.op = "take_dose"
  /\ last.result = "ok"
  /\ meds[TargetPos].name = MedName(2)
  /\ meds[TargetPos].taken_count_per_dose = <<CountCap>>

(***************************************************************************)
(* C7: the daily reset leaves every record that is active with             *)
(* doses_per_day > 0 with all_taken false and one zero counter per timing  *)
(* slot, leaves every inactive record and every record with                *)
(* doses_per_day <= 0 as it was, and changes no field other than           *)
(* taken_count_per_dose and all_taken on any record.                       *)
(***************************************************************************)
C7_ResetFrame ==
  [][ last'.op = "reset"
      => /\ Len(meds') = Len(meds)
         /\ \A k \in 1..Len(meds) :
              /\ (meds[k].active /\ IsNum(meds[k].doses_per_day)
                                 /\ meds[k].doses_per_day.n > 0)
                 => /\ meds'[k].all_taken = FALSE
                    /\ meds'[k].taken_count_per_dose = Zeros(Len(meds[k].timing))
              /\ (~meds[k].active \/ (IsNum(meds[k].doses_per_day)
                                      /\ meds[k].doses_per_day.n <= 0))
                 => meds'[k] = meds[k]
              /\ \A f \in Fields \ {"taken_count_per_dose", "all_taken"} :
                   meds'[k][f] = meds[k][f] ]_vars

(***************************************************************************)
(* C8 as written: a successful add_refill(index, amount) raises            *)
(* doses_available by exactly amount (the float n + 0.5 included), lowers  *)
(* refills_available by 1 when it is > 0 and leaves it otherwise, and      *)
(* never takes refills_available from >= 0 to below 0.                     *)
(***************************************************************************)
Twice(v) == IF v.t = "float" THEN 2 * v.n + 1 ELSE 2 * v.n

RefillsStep(before, after) ==
  /\ after.refills_available.n =
       IF before.refills_available.n > 0
       THEN before.refills_available.n - 1
       ELSE before.refills_available.n
  /\ before.refills_available.n >= 0 => after.refills_available.n >= 0

C8_AsWritten ==
  [][ (last'.op = "add_refill" /\ last'.result = "ok")
      => LET k == PyIntVal(last'.index) + 1
         IN /\ 2 * meds'[k].doses_available.n =
                 2 * meds[k].doses_available.n + Twice(AmountOf(last'.arg))
            /\ RefillsStep(meds[k], meds'[k]) ]_vars

(***************************************************************************)
(* C8 as amended: a successful add_refill(index, amount) raises            *)
(* doses_available by int(amount), the amount with any fraction cut off;   *)
(* refills_available is lowered by 1 when it is > 0 and left as it is      *)
(* otherwise, and never goes from >= 0 to below 0.                         *)
(***************************************************************************)
C8_RefillAddsCoercedAmount ==
  [][ (last'.op = "add_refill" /\ last'.result = "ok")
      => LET k == PyIntVal(last'.index) + 1
         IN /\ meds'[k].doses_available.t = "int"
            /\ meds'[k].doses_available.n =
                 meds[k].doses_available.n + AmountOf(last'.arg).n
            /\ RefillsStep(meds[k], meds'[k]) ]_vars

\* add_refill(idx, 5) on {doses_available: 3, refills_available: 1}.
C8_Witness ==
  /\ last.op = "add_refill"
  /\ last.result = "ok"
  /\ last.arg = I(5)
  /\ steps = 1
  /\ meds[TargetPos].name = MedName(1)
  /\ meds[TargetPos].doses_available = I(8)
  /\ meds[TargetPos].refills_available = I(0)

(***************************************************************************)
(* C9.  The quotient rounded toward minus infinity, and the quotient       *)
(* rounded toward zero (truncation), of a by b > 0.                        *)
(***************************************************************************)
Abs(a) == IF a >= 0 THEN a ELSE -a

FloorQuot(a, b) ==
  CHOOSE q \in (-(Abs(a) + 1))..(Abs(a) + 1) : q * b <= a /\ a < (q + 1) * b

TruncQuot(a, b) == IF a >= 0 THEN FloorQuot(a, b) ELSE -FloorQuot(-a, b)

RecalcOps == {"add", "update", "add_refill", "take_dose"}

DailyNeed(med) == PyIntVal(med.doses_per_day) * PyIntVal(med.dose)

(***************************************************************************)
(* C9 as written: after every successful add, update, add_refill and       *)
(* take_dose the record's next_refill is the current date plus             *)
(* doses_available divided by daily_need with truncation (0 days when      *)
(* daily_need <= 0), from the values the fields have after the call.       *)
(***************************************************************************)
C9_AsWritten ==
  (last.op \in RecalcOps /\ last.result = "ok")
  => LET med == meds[TargetPos]
     IN med.next_refill =
          DateStr(today + IF DailyNeed(med) > 0
                          THEN TruncQuot(PyIntVal(med.doses_available), DailyNeed(med))
                          ELSE 0)

(***************************************************************************)
(* C9 as amended: ... divided by daily_need rounding toward minus          *)
(* infinity (Python //), which is truncation when doses_available >= 0;    *)
(* a next_refill supplied by the caller of add or update is overwritten.   *)
(***************************************************************************)
C9_NextRefillIsFloorQuotient ==
  (last.op \in RecalcOps /\ last.result = "ok")
  => LET med == meds[TargetPos]
     IN med.next_refill =
          DateStr(today + IF DailyNeed(med) > 0
                          THEN FloorQuot(PyIntVal(med.doses_available), DailyNeed(med))
                          ELSE 0)

\* update with a next_refill of the caller's, the day after a reset:
\* 7 doses at 2 x 2 a day last 1 day.
C9_Witness ==
  /\ last.op = "update"
  /\ last.result = "ok"
  /\ "next_refill" \in last.data.keys
  /\ today = 1
  /\ meds[TargetPos].doses_available = I(7)
  /\ DailyNeed(meds[TargetPos]) = 4
  /\ meds[TargetPos].next_refill = DateStr(2)

(***************************************************************************)
(* C10: when a delete has completed, the keys of the entity map are        *)
(* 0..k-1 for some k <= the number of records, every entity that was keyed *)
(* at or past the new length has been removed, each remaining entity's     *)
(* index field is its key, and the remaining entities are in the order     *)
(* they were in.                                                           *)
(***************************************************************************)
C10_EntitiesAfterDelete ==
  [][ (last'.op = "delete" /\ last'.result = "ok")
      => LET old == med_entities
             new == med_entities'
             K == DOMAIN new
             KeyOf(e, id) == CHOOSE k \in DOMAIN e : e[k].id = id
         IN /\ K = 0..(Cardinality(K) - 1)
            /\ Cardinality(K) <= Len(meds')
            /\ \A k \in K : new[k].index = k
            /\ last'.removed = {old[k].id : k \in {j \in DOMAIN old : j >= Len(meds')}}
            /\ {new[k].id : k \in K} = {old[k].id : k \in DOMAIN old} \ last'.removed
            /\ \A a, b \in K :
                 a < b => KeyOf(old, new[a].id) < KeyOf(old, new[b].id) ]_vars

\* Deleting index 1 of three records with entities 0, 1, 2.
C10_Witness ==
  /\ last.op = "delete"
  /\ last.result = "ok"
  /\ last.index = I(1)
  /\ steps = 1
  /\ Len(meds) = 2
  /\ DOMAIN med_entities = {0, 1}
  /\ last.removed = {2}

(***************************************************************************)
(* C11: after any sequence of add and delete calls there is one per-record *)
(* entity for every record: the keys of the entity map are exactly         *)
(* 0..len(meds)-1.                                                         *)
(***************************************************************************)
C11_OneEntityPerRecord ==
  (last.op \in {"setup", "add", "delete"} /\ last.result = "ok")
  => DOMAIN med_entities = 0..(Len(meds) - 1)

(***************************************************************************)
(* C12: every successful add, delete, update, toggle_active, add_refill    *)
(* and take_dose hands the changed document to the store and afterwards    *)
(* sends at least one change signal: the write is the first thing the call *)
(* does to the outside, no signal precedes it, and a signal follows it.    *)
(***************************************************************************)
Mutations == {"add", "delete", "update", "toggle_active", "add_refill", "take_dose"}

Positions(eff, x) == {j \in 1..Len(eff) : eff[j] = x}

C12_SaveThenSignal ==
  (last.op \in Mutations /\ last.result = "ok")
  => /\ Positions(last.effects, "save") = {1}
     /\ Positions(last.effects, "signal") # {}
     /\ \A j \in Positions(last.effects, "signal") : j > 1
     /\ saved = meds

C12_Witness ==
  /\ last.op = "toggle_active"
  /\ last.result = "ok"
  /\ last.effects = <<"save", "signal">>
  /\ meds # StoredDoc(Len(meds))

(***************************************************************************)
(* C13: update(index, {}) on a valid index leaves every field of every     *)
(* record as it was except the target's next_refill, which is recomputed,  *)
(* performs one persistence write and one change signal, and applied a     *)
(* second time on the same day leaves the data as the first call left it.  *)
(***************************************************************************)
EmptyUpdate(call, m) ==
  call.op = "update" /\ call.data = NoData /\ IndexAccepted(call.index, m)

OnlyNextRefillDiffers(m1, m2, pos) ==
  /\ Len(m1) = Len(m2)
  /\ \A k \in 1..Len(m1) :
       \A f \in Fields : (k # pos \/ f # "next_refill") => m2[k][f] = m1[k][f]

C13_EmptyUpdateTouchesOnlyNextRefill ==
  [][EmptyUpdate(last', meds)
     => /\ last'.result = "ok"
        /\ last'.effects = <<"save", "signal">>
        /\ OnlyNextRefillDiffers(meds, meds', PyIntVal(last'.index) + 1)
        /\ Recalc(meds[PyIntVal(last'.index) + 1], today).ok
        /\ meds'[PyIntVal(last'.index) + 1] =
             Recalc(meds[PyIntVal(last'.index) + 1], today).med
        /\ (/\ EmptyUpdate(last, meds)
            /\ last.result = "ok"
            /\ PyIntVal(last.index) = PyIntVal(last'.index))
           => meds' = meds]_vars

\* The same, for the calls that return normally.
C13_WhenItReturns ==
  [][(EmptyUpdate(last', meds) /\ last'.result = "ok")
     => /\ last'.effects = <<"save", "signal">>
        /\ OnlyNextRefillDiffers(meds, meds', PyIntVal(last'.index) + 1)
        /\ (/\ EmptyUpdate(last, meds)
            /\ last.result = "ok"
            /\ PyIntVal(last.index) = PyIntVal(last'.index))
           => meds' = meds]_vars

(***************************************************************************)
(* C14: on a list of length n, a delete of a valid index followed by an    *)
(* add that appends its record gives a list of length n again.             *)
(***************************************************************************)
C14_DeleteThenAddKeepsLength ==
  [][(/\ last.op = "delete"
      /\ last.result = "ok"
      /\ last'.op = "add"
      /\ last'.result = "ok")
     => Len(meds') = last.n0]_vars

\* <<Stored1, Stored2, Stored3>> after delete(0) and add({}).
C14_Witness ==
  /\ last.op = "add"
  /\ last.result = "ok"
  /\ last.data = NoData
  /\ last.n0 = 2
  /\ steps = 2
  /\ Len(meds) = 3
  /\ meds[1] = Stored2
  /\ meds[2] = Stored3
  /\ meds[3].name = MedName(3)

(***************************************************************************)
(* C15: a successful delete(i) on a list of length n gives length n - 1;   *)
(* the records before position i stay where they were, the records after   *)
(* it move down by one, and no surviving record is changed.                *)
(***************************************************************************)
C15_DeleteShiftsTheTail ==
  [][(last'.op = "delete" /\ last'.result = "ok")
     => LET i == PyIntVal(last'.index)
            n == Len(meds)
        IN /\ Len(meds') = n - 1
           /\ \A j \in 0..(i - 1) : meds'[j + 1] = meds[j + 1]
           /\ \A j \in (i + 1)..(n - 1) : meds'[j] = meds[j + 1]]_vars

C15_Witness ==
  /\ last.op = "delete"
  /\ last.result = "ok"
  /\ last.index = I(1)
  /\ last.n0 = 3
  /\ meds = <<Stored1, Stored3>>

(***************************************************************************)
(* C16: a successful take_dose(index, dose_index) changes only the record  *)
(* at index, and in it only slot dose_index of taken_count_per_dose (one   *)
(* more, at most 99999), doses_available (less dose, at least 0),          *)
(* all_taken and next_refill; every other slot, field and record is as it  *)
(* was, and a repeated call on the same slot counts and deducts again.  A  *)
(* slot the counter list did not have yet reads as 0.                      *)
(***************************************************************************)
Slot(taken, k) == IF k <= Len(taken) THEN taken[k] ELSE 0

TakeDoseFrame == {"taken_count_per_dose", "doses_available", "all_taken", "next_refill"}

SameCall(a, b) ==
  /\ a.op = b.op
  /\ PyIntVal(a.index) = PyIntVal(b.index)
  /\ PyIntVal(a.arg) = PyIntVal(b.arg)

TimingOf(md) == IF "timing" \in md.keys THEN md.vals.timing ELSE <<>>

DefaultOf(f, md, pos) ==
  CASE f = "name" -> MedName(pos)
    [] f = "dose" -> I(1)
    [] f = "doses_per_day" ->
         I(IF Len(TimingOf(md)) > 0 THEN Len(TimingOf(md)) ELSE 1)
    [] f \in {"doses_available", "refills_available", "doses_per_refill"} -> I(0)
    [] f = "all_taken" -> FALSE
    [] f = "active" -> TRUE

Defaulted == {"name", "dose", "doses_per_day", "doses_available",
              "refills_available", "doses_per_refill", "all_taken", "active"}

C17_AddAppendsWithDefaults ==
  [][(last'.op = "add" /\ last'.result = "ok")
     => LET n == Len(meds)
        IN /\ Len(meds') = n + 1
           /\ last'.n0 = n
           /\ \A k \in 1..n : meds'[k] = meds[k]
           /\ \A f \in Defaulted \ last'.data.keys :
                meds'[n + 1][f] = DefaultOf(f, last'.data, n + 1)]_vars

\* add({"timing": ["08:00", "20:00"]}) on a list that holds a record.
C17_Witness ==
  /\ last.op = "add"
  /\ last.result = "ok"
  /\ last.data.keys = {"timing"}
  /\ Len(meds) = 2
  /\ meds[1] = Stored1
  /\ meds[2].name = MedName(2)
  /\ meds[2].doses_per_day = I(2)
  /\ meds[2].dose = I(1)
  /\ meds[2].active

(***************************************************************************)
(* C18: the daily reset writes the document to the store and then sends a  *)
(* change signal if its sweep changed at least one record; when no record  *)
(* is active with doses_per_day > 0 it does neither and leaves the whole   *)
(* document as it was.                                                     *)
(***************************************************************************)
Eligible(med) ==
  med.active /\ IsNum(med.doses_per_day) /\ med.doses_per_day.n > 0

C18_ResetSavesWhatItChanged ==
  [][last'.op = "reset"
     => /\ meds' # meds => last'.effects = <<"save", "signal">>
        /\ (\A k \in 1..Len(meds) : ~Eligible(meds[k]))
           => /\ last'.effects = <<>>
              /\ meds' = meds
              /\ saved' = saved]_vars

(***************************************************************************)
(* C20: with the calls run one after the other, between calls the document *)
(* last handed to the store equals the document in memory, whether the     *)
(* last call went through, was rejected or raised.                         *)
(***************************************************************************)
C20_StoreHoldsMemory == saved = meds

====
